---- MODULE Spec2Model ----
(***************************************************************************)
(* ContactDataAnalyzer (contact_analysis_pipeline.py): the analyzer        *)
(* object, its five operations and the per-row feature functions of        *)
(* clean_and_engineer_features.                                            *)
(*                                                                         *)
(* Text is a sequence of one-character strings.  A nullable text cell is   *)
(* [null, s]; a cell that pandas may leave NaN is [nan, v].  Instants are  *)
(* seconds counted from Epoch.                                             *)
(***************************************************************************)
EXTENDS Integers, Sequences, FiniteSets, TLC

VARIABLES df, category_mapping, le_category, output_dir, clock, last,
          row_in, now_in, row_out

vars == <<df, category_mapping, le_category, output_dir, clock, last,
          row_in, now_in, row_out>>

---------------------------------------------------------------------------
(* Bounds of the model.                                                    *)
MaxRows == 2
MaxDigits == 12
MaxNotesLen == 52
MaxDay == 1
MaxMinute == 1
MaxSecond == 1

(* Program constants.                                                      *)
SecondsPerDay == 86400
SecondsPerMinute == 60
SecondsPerHour == 3600
LongNotes == 50
LocalDigits == 10
AreaCodeLen == 3

(* The instant 0 of the model: Friday 2024-01-05T00:00:00 (dayofweek 4).   *)
(* Every instant of the model lies in that month.                          *)
Epoch == [year |-> 2024, month |-> 1, dayofweek |-> 4]

---------------------------------------------------------------------------
(* Characters and text.                                                    *)

Ascii == <<" ", "#", "(", ")", "+", "-", ".", "/",
           "0", "1", "2", "3", "4", "5", "6", "7", "8", "9", ":", "@",
           "A", "B", "C", "D", "E", "F", "G", "H", "I", "J", "K", "L", "M",
           "N", "O", "P", "Q", "R", "S", "T", "U", "V", "W", "X", "Y", "Z",
           "_",
           "a", "b", "c", "d", "e", "f", "g", "h", "i", "j", "k", "l", "m",
           "n", "o", "p", "q", "r", "s", "t", "u", "v", "w", "x", "y", "z">>

UpperChars == SubSeq(Ascii, 21, 46)
LowerChars == SubSeq(Ascii, 48, 73)

Ord(c) == CHOOSE i \in 1..Len(Ascii) : Ascii[i] = c

DigitChars == {"0", "1", "2", "3", "4", "5", "6", "7", "8", "9"}
UpperSet == {UpperChars[i] : i \in 1..Len(UpperChars)}
LowerSet == {LowerChars[i] : i \in 1..Len(LowerChars)}
WordChars == DigitChars \cup UpperSet \cup LowerSet \cup {"_"}

LowerOf ==
    [c \in UpperSet |->
        LowerChars[CHOOSE i \in 1..Len(UpperChars) : UpperChars[i] = c]]

IsDigit(c) == c \in DigitChars
IsSpace(c) == c = " "
IsWord(c) == c \in WordChars

LowerChar(c) == IF c \in UpperSet THEN LowerOf[c] ELSE c

SetMin(S) == CHOOSE x \in S : \A y \in S : x <= y
SetMax(S) == CHOOSE x \in S : \A y \in S : x >= y

Rep(c, n) == [i \in 1..n |-> c]

(* Cells.                                                                  *)
None == [null |-> TRUE, s |-> <<>>]
Text(s) == [null |-> FALSE, s |-> s]
NaN == [nan |-> TRUE, v |-> 0]
Num(v) == [nan |-> FALSE, v |-> v]
NaT == [nat |-> TRUE, t |-> 0]
Timestamp(t) == [nat |-> FALSE, t |-> t]

astype_int(b) == IF b THEN 1 ELSE 0

(* Series.astype(str): a None cell becomes the text "None".                *)
astype_str(cell) == IF cell.null THEN <<"N", "o", "n", "e">> ELSE cell.s

(* Series.fillna(value).                                                   *)
fillna(cell, s) == IF cell.null THEN s ELSE cell.s

(* str.strip(): leading and trailing whitespace removed.                   *)
str_strip(s) ==
    LET keep == {i \in 1..Len(s) : ~IsSpace(s[i])}
    IN  IF keep = {} THEN <<>> ELSE SubSeq(s, SetMin(keep), SetMax(keep))

(* str.split().str.len(): the number of whitespace-delimited tokens.       *)
str_split_len(s) ==
    Cardinality({i \in 1..Len(s) :
        ~IsSpace(s[i]) /\ (i = 1 \/ IsSpace(s[i - 1]))})

str_lower(s) == [i \in 1..Len(s) |-> LowerChar(s[i])]

(* str.split(sep).str[-1]: what follows the last separator.                *)
str_split_last(s, sep) ==
    LET at == {i \in 1..Len(s) : s[i] = sep}
    IN  IF at = {} THEN s ELSE SubSeq(s, SetMax(at) + 1, Len(s))

MatchAt(s, i, tok) ==
    /\ i >= 1
    /\ i + Len(tok) - 1 <= Len(s)
    /\ \A k \in 1..Len(tok) : s[i + k - 1] = tok[k]

(* regex \b before position i of s.                                        *)
WordBoundary(s, i) ==
    LET before == i - 1 >= 1 /\ i - 1 <= Len(s) /\ IsWord(s[i - 1])
        after == i >= 1 /\ i <= Len(s) /\ IsWord(s[i])
    IN  before # after

str_contains(s, tok) == \E i \in 1..Len(s) : MatchAt(s, i, tok)

---------------------------------------------------------------------------
(* The contacts table: one ContactRecord per row, as read_sql returns it.  *)
RawColumns == {"id", "name", "phone", "category", "email", "notes",
               "created_at", "updated_at"}

(* A created_at / updated_at cell of the table: SQL NULL, a text that is   *)
(* no timestamp, or a timestamp.                                           *)
SqlNull == [kind |-> "null", t |-> 0]
SqlGarbage == [kind |-> "text", t |-> 0]
SqlTime(t) == [kind |-> "datetime", t |-> t]

(* df[col] = value on one row.                                             *)
with_columns(row, cols) == cols @@ row

---------------------------------------------------------------------------
(* Name (lines 97-110).                                                    *)
Titles == {<<"D", "r">>, <<"M", "r">>, <<"M", "r", "s">>, <<"M", "s">>,
           <<"P", "r", "o", "f">>, <<"E", "n", "g">>, <<"S", "i", "r">>,
           <<"L", "a", "d", "y">>}

CompanyTokens == {<<"I", "n", "c">>, <<"L", "t", "d">>,
                  <<"C", "o", "r", "p">>, <<"L", "L", "C">>,
                  <<"G", "m", "b", "H">>, <<"C", "o", ".">>,
                  <<"C", "o", "m", "p", "a", "n", "y">>}

(* \b(Dr|Mr|...)\.? searched case-insensitively.                           *)
TitlesLower == {str_lower(tok) : tok \in Titles}

has_title(name) ==
    LET low == str_lower(name)
    IN  astype_int(\E i \in 1..Len(name) :
            /\ WordBoundary(name, i)
            /\ \E tok \in TitlesLower : MatchAt(low, i, tok))

(* \b(Inc|Ltd|...|Co\.|Company)\b searched case-sensitively.               *)
is_company(name) ==
    astype_int(\E i \in 1..Len(name) :
        /\ WordBoundary(name, i)
        /\ \E tok \in CompanyTokens :
              MatchAt(name, i, tok) /\ WordBoundary(name, i + Len(tok)))

name_features(row) ==
    LET name == str_strip(astype_str(row.name))
    IN  [name |-> Text(name),
         name_length |-> Len(name),
         name_words |-> str_split_len(name),
         has_title |-> has_title(name),
         is_company |-> is_company(name)]

---------------------------------------------------------------------------
(* Phone (lines 112-119).                                                  *)

(* str.replace(r"\D", "", regex=True)                                      *)
phone_clean(phone) == SelectSeq(astype_str(phone), IsDigit)

has_extension(phone) ==
    LET s == str_lower(astype_str(phone))
    IN  astype_int(\/ str_contains(s, <<"x">>)
                   \/ str_contains(s, <<"e", "x", "t">>)
                   \/ str_contains(s, <<"#">>))

phone_features_wrong_threshold(row) ==
    LET clean == phone_clean(row.phone)
        count == Len(clean)
    IN  [phone_clean |-> clean,
         phone_digit_count |-> count,
         is_international |-> astype_int(count >= LocalDigits),
         area_code |-> IF count >= LocalDigits
                       THEN Text(SubSeq(clean, 1, AreaCodeLen))
                       ELSE None,
         has_extension |-> has_extension(row.phone)]

phone_features(row) ==
    LET clean == phone_clean(row.phone)
        count == Len(clean)
    IN  [phone_clean |-> clean,
         phone_digit_count |-> count,
         is_international |-> astype_int(count > LocalDigits),
         area_code |-> IF count >= LocalDigits
                       THEN Text(SubSeq(clean, 1, AreaCodeLen))
                       ELSE None,
         has_extension |-> has_extension(row.phone)]

---------------------------------------------------------------------------
(* Email (lines 121-139).                                                  *)
free_domains ==
    {<<"g", "m", "a", "i", "l", ".", "c", "o", "m">>,
     <<"y", "a", "h", "o", "o", ".", "c", "o", "m">>,
     <<"h", "o", "t", "m", "a", "i", "l", ".", "c", "o", "m">>,
     <<"o", "u", "t", "l", "o", "o", "k", ".", "c", "o", "m">>,
     <<"i", "c", "l", "o", "u", "d", ".", "c", "o", "m">>,
     <<"p", "r", "o", "t", "o", "n", ".", "m", "e">>}

email_features(row) ==
    LET has_email == astype_int(~row.email.null)
        domain == IF has_email = 1
                  THEN Text(str_lower(str_split_last(astype_str(row.email), "@")))
                  ELSE None
    IN  [has_email |-> has_email,
         email_domain |-> domain,
         email_is_free |-> astype_int(~domain.null /\ domain.s \in free_domains)]

---------------------------------------------------------------------------
(* Notes (lines 141-150).                                                  *)
notes_has_url(notes) ==
    LET s == str_lower(astype_str(notes))
    IN  astype_int(\/ str_contains(s, <<"h", "t", "t", "p", ":", "/", "/">>)
                   \/ str_contains(s, <<"h", "t", "t", "p", "s", ":", "/", "/">>))

notes_features(row) ==
    [has_notes |-> astype_int(~row.notes.null),
     notes_length |-> Len(fillna(row.notes, <<>>)),
     notes_word_count |-> str_split_len(fillna(row.notes, <<>>)),
     notes_has_url |-> notes_has_url(row.notes)]

---------------------------------------------------------------------------
(* Time (lines 152-165).                                                   *)

(* pd.to_datetime(..., errors="coerce")                                    *)
to_datetime(cell) == IF cell.kind = "datetime" THEN Timestamp(cell.t) ELSE NaT

dt_year(ts) == IF ts.nat THEN NaN ELSE Num(Epoch.year)
dt_month(ts) == IF ts.nat THEN NaN ELSE Num(Epoch.month)
dt_dayofweek(ts) ==
    IF ts.nat THEN NaN
    ELSE Num((Epoch.dayofweek + (ts.t \div SecondsPerDay)) % 7)
dt_hour(ts) ==
    IF ts.nat THEN NaN ELSE Num((ts.t % SecondsPerDay) \div SecondsPerHour)

(* (a - b).dt.days for timestamps a, b: whole days, rounded down.          *)
timedelta_days(a, b) ==
    IF a.nat \/ b.nat THEN NaN ELSE Num((a.t - b.t) \div SecondsPerDay)

(* (a - b) > pd.Timedelta(days=1); a comparison with NaT is False.         *)
timedelta_gt_one_day(a, b) ==
    ~a.nat /\ ~b.nat /\ (a.t - b.t) > SecondsPerDay

time_features(row, now) ==
    LET created_at == to_datetime(row.created_at)
        updated_at == to_datetime(row.updated_at)
        dayofweek == dt_dayofweek(created_at)
    IN  [created_at |-> created_at,
         updated_at |-> updated_at,
         created_year |-> dt_year(created_at),
         created_month |-> dt_month(created_at),
         created_dayofweek |-> dayofweek,
         created_hour |-> dt_hour(created_at),
         is_weekend |-> astype_int(~dayofweek.nan /\ dayofweek.v \in {5, 6}),
         days_since_creation |-> timedelta_days(Timestamp(now), created_at),
         was_recently_updated |->
             astype_int(timedelta_gt_one_day(updated_at, created_at))]

---------------------------------------------------------------------------
(* Target (lines 167-169) and sklearn's LabelEncoder.                      *)
Other == <<"O", "t", "h", "e", "r">>

category_clean(row) == [category |-> Text(str_strip(fillna(row.category, Other)))]

(* Python's order on str: by code point, a proper prefix first.            *)
LexLess(a, b) ==
    LET n == IF Len(a) < Len(b) THEN Len(a) ELSE Len(b)
        diff == {i \in 1..n : a[i] # b[i]}
    IN  IF diff = {} THEN Len(a) < Len(b)
        ELSE Ord(a[SetMin(diff)]) < Ord(b[SetMin(diff)])

(* np.unique: the distinct values, sorted.                                 *)
SortedUnique(S) ==
    [i \in 1..Cardinality(S) |->
        CHOOSE x \in S : Cardinality({y \in S : LexLess(y, x)}) = i - 1]

Range(seq) == {seq[i] : i \in 1..Len(seq)}

Unfitted == [fitted |-> FALSE, classes_ |-> <<>>]

(* A fit that keeps the classes of earlier fits.                           *)
LabelEncoder_fit_keeping(le, y) ==
    [fitted |-> TRUE, classes_ |-> SortedUnique(Range(le.classes_) \cup Range(y))]

(* LabelEncoder.fit: classes_ is recomputed from y alone.                  *)
LabelEncoder_fit(le, y) ==
    [fitted |-> TRUE, classes_ |-> SortedUnique(Range(y))]

(* LabelEncoder.transform: the 0-based place of each label in classes_.    *)
LabelEncoder_transform(le, y) ==
    [i \in 1..Len(y) |->
        (CHOOSE k \in 1..Len(le.classes_) : le.classes_[k] = y[i]) - 1]

---------------------------------------------------------------------------
(* Composite quality score (lines 174-180).                                *)

(* ~x on an int64 column is the bitwise complement.                        *)
invert_int(x) == -x - 1

contact_quality_score(row) ==
    row.has_email * 3
    + row.has_notes * 2
    + astype_int(row.notes_length > LongNotes) * 2
    + invert_int(row.email_is_free) * 1

---------------------------------------------------------------------------
(* Lines 97-165 and line 168 on one row of the working copy.               *)
row_features(row, now) ==
    with_columns(row,
        name_features(row) @@ phone_features(row) @@ email_features(row)
        @@ notes_features(row) @@ time_features(row, now)
        @@ category_clean(row))

DerivedColumns ==
    {"name_length", "name_words", "has_title", "is_company",
     "phone_clean", "phone_digit_count", "is_international", "area_code",
     "has_extension", "has_email", "email_domain", "email_is_free",
     "has_notes", "notes_length", "notes_word_count", "notes_has_url",
     "created_year", "created_month", "created_dayofweek", "created_hour",
     "is_weekend", "days_since_creation", "was_recently_updated"}

---------------------------------------------------------------------------
(* The frame operations of clean_and_engineer_features on the rows of the  *)
(* working copy.                                                           *)

(* Lines 97-165 and 168.                                                   *)
engineer_features(rows, now) ==
    [i \in 1..Len(rows) |-> row_features(rows[i], now)]

category_labels(rows) == [i \in 1..Len(rows) |-> rows[i].category.s]

(* Line 169: df["category_encoded"] = le.transform(df["category"]).        *)
encode_target(rows, le) ==
    LET codes == LabelEncoder_transform(le, category_labels(rows))
    IN  [i \in 1..Len(rows) |->
            with_columns(rows[i], [category_encoded |-> codes[i]])]

(* Lines 175-180.                                                          *)
score_rows(rows) ==
    [i \in 1..Len(rows) |->
        with_columns(rows[i],
            [contact_quality_score |-> contact_quality_score(rows[i])])]

---------------------------------------------------------------------------
(* Inputs.                                                                 *)
Instants ==
    {d * SecondsPerDay + m * SecondsPerMinute + s :
        d \in 0..MaxDay, m \in 0..MaxMinute, s \in 0..MaxSecond}

TimeInputs == {SqlNull, SqlGarbage} \cup {SqlTime(t) : t \in Instants}

PhonePattern == <<"1", "4", "1", "5", "5", "5", "5", "0", "1", "9", "9", "2", "7">>

DigitAt(i) == PhonePattern[((i - 1) % Len(PhonePattern)) + 1]

PhoneStyles == {"plain", "dashed", "paren", "ext"}

PhoneText(n, style) ==
    LET digits == [i \in 1..n |-> DigitAt(i)]
        k == IF n < AreaCodeLen THEN n ELSE AreaCodeLen
    IN  CASE style = "plain" -> digits
          [] style = "dashed" ->
                [i \in 1..(2 * n) |->
                    IF i % 2 = 1 THEN DigitAt((i + 1) \div 2) ELSE "-"]
          [] style = "paren" ->
                <<"+", "(">> \o SubSeq(digits, 1, k) \o <<")", " ">>
                \o SubSeq(digits, k + 1, n)
          [] style = "ext" -> digits \o <<" ", "E", "x", "t">>

PhoneInputs ==
    {None} \cup {Text(PhoneText(n, style)) : n \in 0..MaxDigits, style \in PhoneStyles}

JaneGmail == <<"j", "a", "n", "e", "@", "g", "m", "a", "i", "l", ".", "c", "o", "m">>
BobGmailUpper == <<"B", "o", "b", "@", "G", "M", "A", "I", "L", ".", "C", "O", "M">>
AtAcme == <<"a", "@", "a", "c", "m", "e", ".", "i", "o">>
TwoAtYahoo == <<"x", "@", "y", "@", "y", "a", "h", "o", "o", ".", "c", "o", "m">>
BareProton == <<"p", "r", "o", "t", "o", "n", ".", "m", "e">>

EmailInputs ==
    {None, Text(<<>>), Text(JaneGmail), Text(BobGmailUpper), Text(AtAcme),
     Text(TwoAtYahoo), Text(BareProton)}

UrlNote == <<"s", "e", "e", " ", "H", "t", "t", "p", ":", "/", "/", "x", ".", "c", "o">>

NotesInputs ==
    {None, Text(UrlNote)} \cup {Text(Rep("a", n)) : n \in 0..MaxNotesLen}

DrJaneDoe == <<" ", "D", "r", ".", " ", "J", "a", "n", "e", " ", "D", "o", "e", " ">>
AcmeCoLtd == <<"A", "c", "m", "e", " ", "C", "o", ".", " ", "L", "t", "d">>
Drake == <<"d", "r", "a", "k", "e">>
Bob == <<"B", "o", "b">>

NameInputs == {Text(DrJaneDoe), Text(AcmeCoLtd), Text(Drake), Text(Bob)}

Work == <<"W", "o", "r", "k">>
WorkPadded == <<" ", "W", "o", "r", "k", " ">>
Family == <<"F", "a", "m", "i", "l", "y">>

CategoryInputs == {None, Text(Work), Text(WorkPadded), Text(Family), Text(<<>>)}

ContactRecord(id, name, phone, category, email, notes, created_at, updated_at) ==
    [id |-> id, name |-> name, phone |-> phone, category |-> category,
     email |-> email, notes |-> notes,
     created_at |-> created_at, updated_at |-> updated_at]

BaseRow ==
    ContactRecord(1, Text(Bob), Text(PhoneText(7, "dashed")), Text(Work),
                  None, None, SqlTime(0), SqlTime(0))

(* One row and the instant the engine reads as "now": each group of        *)
(* fields ranges over its inputs while the others stay as in BaseRow.      *)
RowCases ==
    {[row |-> [BaseRow EXCEPT !.phone = p], now |-> 0] : p \in PhoneInputs}
    \cup {[row |-> [BaseRow EXCEPT !.email = e, !.notes = n], now |-> 0] :
            e \in EmailInputs, n \in NotesInputs}
    \cup {[row |-> [BaseRow EXCEPT !.created_at = c, !.updated_at = u], now |-> t] :
            c \in TimeInputs, u \in TimeInputs, t \in Instants}
    \cup {[row |-> [BaseRow EXCEPT !.name = n, !.category = c], now |-> 0] :
            n \in NameInputs, c \in CategoryInputs}

---------------------------------------------------------------------------
(* The analyzer object (lines 43-58) and what its operations return.       *)
NoFrame == [none |-> TRUE, columns |-> {}, rows |-> <<>>]
DataFrame(columns, rows) == [none |-> FALSE, columns |-> columns, rows |-> rows]

(* DataFrame.empty                                                         *)
df_empty(frame) == Len(frame.rows) = 0

EmptyDict == <<>>

(* dict(zip(keys, values)): pairs up to the shorter length, a later pair   *)
(* replacing an earlier one with the same key.                             *)
zip_dict(keys, values) ==
    LET n == IF Len(keys) < Len(values) THEN Len(keys) ELSE Len(values)
    IN  [k \in {keys[i] : i \in 1..n} |->
            values[SetMax({i \in 1..n : keys[i] = k})]]

db_config == [autocommit |-> TRUE, charset |-> "utf8mb4"]

(* The attributes __init__ sets.                                           *)
Self ==
    [output_dir |-> output_dir, db_config |-> db_config, df |-> df,
     category_mapping |-> category_mapping, le_category |-> le_category]

(* self.<name>: AttributeError when the object has no such attribute.      *)
getattr(self, name) ==
    IF name \in DOMAIN self
    THEN [found |-> TRUE, value |-> self[name]]
    ELSE [found |-> FALSE]

(* datetime.now().strftime("%Y%m%d_%H%M"): the minute of the instant.      *)
strftime_minute(now) == now \div SecondsPerMinute

---------------------------------------------------------------------------
(* 1. connect_and_extract (lines 63-85).  source is what the database      *)
(* answers: unavailable, or the rows of the query.                         *)
connect_and_extract(self, source) ==
    IF source.available
    THEN [self |-> [self EXCEPT !.df = DataFrame(RawColumns, source.rows)],
          result |-> TRUE]
    ELSE [self |-> self, result |-> FALSE]

---------------------------------------------------------------------------
(* 2. clean_and_engineer_features (lines 90-183).  frame is the local df   *)
(* when the call ends.                                                     *)

(* The same, working on self.df itself instead of a copy.                  *)
clean_and_engineer_features_in_place(self, now) ==
    IF self.df.none \/ df_empty(self.df)
    THEN [self |-> self, result |-> "ValueError", frame |-> NoFrame]
    ELSE
        LET rows1 == engineer_features(self.df.rows, now)
            le == LabelEncoder_fit(self.le_category, category_labels(rows1))
            rows2 == encode_target(rows1, le)
            frame2 == DataFrame(self.df.columns \cup DerivedColumns
                                \cup {"category_encoded"}, rows2)
            fitted == [self EXCEPT !.le_category = le, !.df = frame2]
        IN  [self |-> fitted, result |-> "AttributeError", frame |-> frame2]

(* The same, with the guard of line 91 testing only for None.              *)
clean_and_engineer_features_no_empty_guard(self, now) ==
    IF self.df.none
    THEN [self |-> self, result |-> "ValueError", frame |-> NoFrame]
    ELSE
        LET rows1 == engineer_features(self.df.rows, now)
            le == LabelEncoder_fit(self.le_category, category_labels(rows1))
            rows2 == encode_target(rows1, le)
            frame2 == DataFrame(self.df.columns \cup DerivedColumns
                                \cup {"category_encoded"}, rows2)
            fitted == [self EXCEPT !.le_category = le]
        IN  [self |-> fitted, result |-> "AttributeError", frame |-> frame2]

clean_and_engineer_features(self, now) ==
    IF self.df.none \/ df_empty(self.df)
    THEN [self |-> self, result |-> "ValueError", frame |-> NoFrame]
    ELSE
        LET copy == self.df
            rows1 == engineer_features(copy.rows, now)
            le == LabelEncoder_fit(self.le_category, category_labels(rows1))
            rows2 == encode_target(rows1, le)
            frame2 == DataFrame(copy.columns \cup DerivedColumns
                                \cup {"category_encoded"}, rows2)
            fitted == [self EXCEPT !.le_category = le]
            le_attr == getattr(fitted, "le")
        IN  IF ~le_attr.found
            THEN [self |-> fitted, result |-> "AttributeError", frame |-> frame2]
            ELSE
                LET mapping == zip_dict(le.classes_,
                                        le_attr.value.classes_indices_)
                    frame3 == DataFrame(
                        frame2.columns \cup {"contact_quality_score"},
                        score_rows(rows2))
                IN  [self |-> [fitted EXCEPT !.category_mapping = mapping,
                                             !.df = frame3],
                     result |-> "ok", frame |-> frame3]

---------------------------------------------------------------------------
(* 3. generate_eda_report (lines 188-265) and _save_html_report            *)
(* (lines 267-302).                                                        *)
ReportColumns ==
    {"category", "contact_quality_score", "is_international",
     "email_is_free", "created_at", "name_length", "phone_digit_count",
     "has_email", "has_notes", "notes_length", "category_encoded",
     "created_hour"}

HtmlColumns ==
    {"category", "has_email", "has_notes", "is_international",
     "contact_quality_score"}

save_html_report(self, timestamp) ==
    IF ~(HtmlColumns \subseteq self.df.columns)
    THEN [self |-> self, result |-> "KeyError"]
    ELSE [self |-> [self EXCEPT !.output_dir =
                        @ \cup {<<"Analysis_Report_", timestamp, ".html">>}],
          result |-> "ok"]

generate_eda_report(self, now) ==
    IF self.df.none
    THEN [self |-> self, result |-> "ok"]
    ELSE
        LET timestamp == strftime_minute(now)
        IN  IF ~(ReportColumns \subseteq self.df.columns)
            THEN [self |-> self, result |-> "KeyError"]
            ELSE save_html_report(
                    [self EXCEPT !.output_dir =
                        @ \cup {<<"EDA_Report_", timestamp, ".png">>}],
                    timestamp)

---------------------------------------------------------------------------
(* 4. export_datasets (lines 307-350).                                     *)
ml_features ==
    {"name_length", "name_words", "has_title", "is_company",
     "phone_digit_count", "is_international", "has_extension", "has_email",
     "email_is_free", "has_notes", "notes_length", "notes_word_count",
     "notes_has_url", "created_month", "created_dayofweek", "created_hour",
     "is_weekend", "contact_quality_score", "category_encoded"}

export_datasets(self, now) ==
    IF self.df.none
    THEN [self |-> self, result |-> "ok"]
    ELSE
        LET timestamp == strftime_minute(now)
            full == [self EXCEPT !.output_dir =
                        @ \cup {<<"contacts_full_", timestamp, ".csv">>}]
        IN  IF ~(ml_features \subseteq self.df.columns)
            THEN [self |-> full, result |-> "KeyError"]
            ELSE [self |-> [full EXCEPT !.output_dir =
                              @ \cup {<<"contacts_ml_ready", 0, ".csv">>,
                                      <<"contacts_ml_ready", 0, ".parquet">>,
                                      <<"category_mapping", 0, ".json">>}],
                  result |-> "ok"]

---------------------------------------------------------------------------
(* 5. run (lines 355-374).  invoked lists the stages run() called, in      *)
(* order; completed those that returned.                                   *)

(* The same, without the test of lines 363-365.                            *)
run_no_empty_check(self, source, now) ==
    LET e == connect_and_extract(self, source)
        c == clean_and_engineer_features(e.self, now)
    IN  IF ~e.result
        THEN [self |-> e.self, result |-> "returned",
              invoked |-> <<"connect_and_extract">>,
              completed |-> <<"connect_and_extract">>]
        ELSE [self |-> c.self, result |-> c.result,
              invoked |-> <<"connect_and_extract",
                            "clean_and_engineer_features">>,
              completed |-> <<"connect_and_extract">>]

run(self, source, now) ==
    LET e == connect_and_extract(self, source)
        c == clean_and_engineer_features(e.self, now)
        g == generate_eda_report(c.self, now)
        x == export_datasets(g.self, now)
    IN  IF ~e.result \/ df_empty(e.self.df)
        THEN [self |-> e.self, result |-> "returned",
              invoked |-> <<"connect_and_extract">>,
              completed |-> <<"connect_and_extract">>]
        ELSE IF c.result # "ok"
        THEN [self |-> c.self, result |-> c.result,
              invoked |-> <<"connect_and_extract",
                            "clean_and_engineer_features">>,
              completed |-> <<"connect_and_extract">>]
        ELSE IF g.result # "ok"
        THEN [self |-> g.self, result |-> g.result,
              invoked |-> <<"connect_and_extract",
                            "clean_and_engineer_features",
                            "generate_eda_report">>,
              completed |-> <<"connect_and_extract",
                              "clean_and_engineer_features">>]
        ELSE IF x.result # "ok"
        THEN [self |-> x.self, result |-> x.result,
              invoked |-> <<"connect_and_extract",
                            "clean_and_engineer_features",
                            "generate_eda_report", "export_datasets">>,
              completed |-> <<"connect_and_extract",
                              "clean_and_engineer_features",
                              "generate_eda_report">>]
        ELSE [self |-> x.self, result |-> "returned",
              invoked |-> <<"connect_and_extract",
                            "clean_and_engineer_features",
                            "generate_eda_report", "export_datasets">>,
              completed |-> <<"connect_and_extract",
                              "clean_and_engineer_features",
                              "generate_eda_report", "export_datasets">>]

-------------------------------------------------------------------------------------------------------------------------------------------------
(* The database behind connect_and_extract.  The query orders by           *)
(* created_at DESC (line 72): a text sorts above every timestamp, NULL     *)
(* below; ids are unique.                                                  *)
SampleRows ==
    {ContactRecord(1, Text(DrJaneDoe), Text(PhoneText(11, "paren")), None,
                   Text(JaneGmail), Text(UrlNote),
                   SqlTime(0), SqlTime(SecondsPerDay + 1)),
     ContactRecord(2, Text(AcmeCoLtd), Text(PhoneText(7, "dashed")),
                   Text(WorkPadded), None, None,
                   SqlNull, SqlTime(SecondsPerMinute)),
     ContactRecord(3, Text(Bob), None, Text(Work),
                   Text(AtAcme), Text(Rep("a", LongNotes + 1)),
                   SqlTime(0), SqlGarbage),
     ContactRecord(4, Text(Drake), Text(PhoneText(10, "ext")), Text(Family),
                   Text(BobGmailUpper), Text(<<>>),
                   SqlGarbage, SqlNull)}

SqlKey(cell) ==
    CASE cell.kind = "null" -> -1
      [] cell.kind = "datetime" -> cell.t
      [] cell.kind = "text" -> SetMax(Instants) + 1

Batches ==
    {b \in UNION {[1..n -> SampleRows] : n \in 0..MaxRows} :
        /\ \A i, j \in 1..Len(b) : i # j => b[i].id # b[j].id
        /\ \A i \in 1..(Len(b) - 1) :
              SqlKey(b[i].created_at) >= SqlKey(b[i + 1].created_at)}

Unavailable == [available |-> FALSE, rows |-> <<>>]

Sources == {Unavailable} \cup {[available |-> TRUE, rows |-> b] : b \in Batches}

(* The instants at which the analyzer is called: after every instant of    *)
(* the table, in one minute or in the next.                                *)
StartOfRun == SetMax(Instants) + 1

ClockValues == {StartOfRun, StartOfRun + SecondsPerMinute}

---------------------------------------------------------------------------
(* last: the call of clean_and_engineer_features or run() that has just    *)
(* ended -- how it ended, what self.df was on entry (None, empty, rows),   *)
(* the encoder on entry, the local df at the end, what the database        *)
(* answered, the stages run() invoked and those that returned.             *)
Idle ==
    [op |-> "none", result |-> "none", input |-> "none",
     source |-> Unavailable, pre_le |-> Unfitted,
     invoked |-> <<>>, completed |-> <<>>, frame |-> NoFrame]

InputKind(frame) ==
    IF frame.none THEN "None" ELSE IF df_empty(frame) THEN "empty" ELSE "rows"

Commit(self) ==
    /\ df' = self.df
    /\ category_mapping' = self.category_mapping
    /\ le_category' = self.le_category
    /\ output_dir' = self.output_dir

RowUnchanged == UNCHANGED <<row_in, now_in, row_out>>

(* __init__ (lines 43-58) on a directory that is kept (exist_ok=True).     *)
Construct ==
    /\ df' = NoFrame
    /\ category_mapping' = EmptyDict
    /\ le_category' = Unfitted
    /\ last' = Idle
    /\ UNCHANGED <<output_dir, clock>>
    /\ RowUnchanged

ConnectAndExtract ==
    \E source \in Sources :
        \E r \in {connect_and_extract(Self, source)} :
            /\ Commit(r.self)
            /\ last' = Idle
            /\ UNCHANGED clock
            /\ RowUnchanged

CleanAndEngineerFeatures ==
    \E r \in {clean_and_engineer_features(Self, clock)} :
        /\ Commit(r.self)
        /\ last' = [Idle EXCEPT !.op = "clean_and_engineer_features",
                                !.result = r.result,
                                !.input = InputKind(df),
                                !.pre_le = le_category,
                                !.frame = r.frame]
        /\ UNCHANGED clock
        /\ RowUnchanged

GenerateEdaReport ==
    \E r \in {generate_eda_report(Self, clock)} :
        /\ Commit(r.self)
        /\ last' = Idle
        /\ UNCHANGED clock
        /\ RowUnchanged

ExportDatasets ==
    \E r \in {export_datasets(Self, clock)} :
        /\ Commit(r.self)
        /\ last' = Idle
        /\ UNCHANGED clock
        /\ RowUnchanged

Run ==
    \E source \in Sources :
        \E r \in {run(Self, source, clock)} :
            /\ Commit(r.self)
            /\ last' = [Idle EXCEPT !.op = "run", !.result = r.result,
                                    !.source = source,
                                    !.invoked = r.invoked,
                                    !.completed = r.completed]
            /\ UNCHANGED clock
            /\ RowUnchanged

(* Time passes between calls.                                              *)
Tick ==
    /\ \E t \in ClockValues : t > clock /\ clock' = t
    /\ last' = Idle
    /\ UNCHANGED <<df, category_mapping, le_category, output_dir>>
    /\ RowUnchanged

InitObject ==
    /\ df = NoFrame
    /\ category_mapping = EmptyDict
    /\ le_category = Unfitted
    /\ output_dir = {}
    /\ clock = StartOfRun
    /\ last = Idle

Init ==
    /\ InitObject
    /\ row_in = BaseRow
    /\ now_in = 0
    /\ row_out = <<>>

Next ==
    \/ Construct
    \/ ConnectAndExtract
    \/ CleanAndEngineerFeatures
    \/ GenerateEdaReport
    \/ ExportDatasets
    \/ Run
    \/ Tick

Spec == Init /\ [][Next]_vars

-----
(* The feature functions applied to one row: the row and the instant are   *)
(* drawn from RowCases, the frame operations are those of                  *)
(* clean_and_engineer_features on a one-row frame.                         *)
InitRow ==
    /\ InitObject
    /\ \E c \in RowCases : row_in = c.row /\ now_in = c.now
    /\ row_out = <<>>

EngineerRow ==
    /\ row_out = <<>>
    /\ LET rows1 == engineer_features(<<row_in>>, now_in)
           le == LabelEncoder_fit(Unfitted, category_labels(rows1))
       IN  row_out' = score_rows(encode_target(rows1, le))
    /\ UNCHANGED <<df, category_mapping, le_category, output_dir, clock, last,
                   row_in, now_in>>

NextRow == EngineerRow

SpecRow == InitRow /\ [][NextRow]_vars

---------------------------------------------------------------------------
(* Properties.                                                             *)

CalledCleanAndEngineer == last.op = "clean_and_engineer_features"

(* The columns an .astype(int) produced: their cells are integers and      *)
(* cannot be null.                                                         *)
IntColumns ==
    {"has_title", "is_company", "is_international", "has_extension",
     "has_email", "email_is_free", "has_notes", "notes_has_url",
     "is_weekend", "was_recently_updated"}

IsNullCell(row, col) == col \notin IntColumns /\ row[col].nan

(* C1: for every engineered row, contact_quality_score equals              *)
(* 3*has_email + 2*has_notes + 2*(notes_length > 50)                       *)
(* + (1 if email_is_free = 0 else 0), and so lies in 0..8.                 *)
C1_ScoreIsWeightedSum ==
    row_out # <<>> =>
        LET r == row_out[1]
        IN  /\ r.contact_quality_score =
                  3 * r.has_email + 2 * r.has_notes
                  + 2 * (IF r.notes_length > 50 THEN 1 ELSE 0)
                  + (IF r.email_is_free = 0 THEN 1 ELSE 0)
            /\ r.contact_quality_score \in 0..8

(* C2: after clean_and_engineer_features was called on a non-empty batch,  *)
(* category_mapping maps exactly the distinct trimmed categories of the    *)
(* batch (null read as "Other") one-to-one onto 0..n-1, and every row's    *)
(* category_encoded is the code of its category.                           *)
C2_MappingIsBijection ==
    (CalledCleanAndEngineer /\ last.input = "rows") =>
        LET cats == {category_clean(df.rows[i]).category.s :
                        i \in 1..Len(df.rows)}
        IN  /\ DOMAIN category_mapping = cats
            /\ {category_mapping[c] : c \in cats} = 0..(Cardinality(cats) - 1)
            /\ \A i \in 1..Len(df.rows) :
                  df.rows[i].category_encoded =
                      category_mapping[category_clean(df.rows[i]).category.s]

(* C3 as stated: called on an empty collection, the feature engine raises  *)
(* nothing and leaves an empty enriched output and an empty mapping.       *)
C3_EmptyInputIsNoError ==
    (CalledCleanAndEngineer /\ last.input = "empty") =>
        /\ last.result = "ok"
        /\ df_empty(df)
        /\ category_mapping = EmptyDict

(* C3 as amended: called on an empty collection, the feature engine raises *)
(* ValueError and leaves self.df, the category mapping, the encoder and    *)
(* the output directory as they were.                                      *)
C3_EmptyInputRaisesValueError ==
    [][(last'.op = "clean_and_engineer_features" /\ last'.input = "empty") =>
            /\ last'.result = "ValueError"
            /\ df' = df
            /\ category_mapping' = category_mapping
            /\ le_category' = le_category
            /\ output_dir' = output_dir]_vars

C3_Witness ==
    /\ CalledCleanAndEngineer
    /\ last.input = "empty"
    /\ last.result = "ValueError"
    /\ ~df.none
    /\ df_empty(df)

(* C4: in an engineered row whose created_at did not parse, created_year,  *)
(* created_month, created_dayofweek, created_hour, is_weekend and          *)
(* days_since_creation are null; was_recently_updated is null when either  *)
(* timestamp did not parse and 0 or 1 when both did.                       *)
C4_UnparsedTimestampNullsDerived ==
    row_out # <<>> =>
        LET r == row_out[1]
        IN  /\ r.created_at.nat =>
                  \A col \in {"created_year", "created_month",
                              "created_dayofweek", "created_hour",
                              "is_weekend", "days_since_creation"} :
                      IsNullCell(r, col)
            /\ (r.created_at.nat \/ r.updated_at.nat) =>
                  IsNullCell(r, "was_recently_updated")
            /\ (~r.created_at.nat /\ ~r.updated_at.nat) =>
                  r.was_recently_updated \in {0, 1}

(* C5: after clean_and_engineer_features was called on a batch of n        *)
(* records, self.df holds n enriched records, in the order of the batch,   *)
(* each with the id, phone, email and notes of the record at its place.    *)
C5_SameRowsEnriched ==
    (CalledCleanAndEngineer /\ last.input = "rows") =>
        /\ last.result = "ok"
        /\ DerivedColumns \cup {"category_encoded", "contact_quality_score"}
              \subseteq df.columns
        /\ Len(df.rows) = Len(last.frame.rows)
        /\ \A i \in 1..Len(df.rows) :
              \A col \in {"id", "phone", "email", "notes"} :
                  df.rows[i][col] = last.frame.rows[i][col]

RunHalts(source) == ~source.available \/ Len(source.rows) = 0

(* C7: a run() whose extraction fails or returns no record returns         *)
(* without raising, having invoked nothing but connect_and_extract and     *)
(* written no file; in any other run export_datasets is invoked only as    *)
(* the fourth stage, after clean_and_engineer_features and then            *)
(* generate_eda_report have returned.                                      *)
C7_RunHaltsBeforeFeatureEngine ==
    [][last'.op = "run" =>
            /\ RunHalts(last'.source) =>
                  /\ last'.result = "returned"
                  /\ last'.invoked = <<"connect_and_extract">>
                  /\ output_dir' = output_dir
            /\ \A i \in 1..Len(last'.invoked) :
                  last'.invoked[i] = "export_datasets" =>
                      /\ ~RunHalts(last'.source)
                      /\ i = 4
                      /\ SubSeq(last'.completed, 1, 3) =
                            <<"connect_and_extract",
                              "clean_and_engineer_features",
                              "generate_eda_report">>]_vars

C7_Witness ==
    /\ last.op = "run"
    /\ last.source.available
    /\ Len(last.source.rows) = 0
    /\ last.result = "returned"
    /\ last.invoked = <<"connect_and_extract">>
    /\ output_dir # {}

C9_PhoneFeatures ==
    row_out # <<>> =>
        LET r == row_out[1]
            n == r.phone_digit_count
        IN  /\ \A i \in 1..Len(r.phone_clean) : IsDigit(r.phone_clean[i])
            /\ n = Len(r.phone_clean)
            /\ ~r.phone.null =>
                  r.phone_clean = SelectSeq(r.phone.s, IsDigit)
            /\ r.is_international \in {0, 1}
            /\ r.is_international = 1 <=> n > 10
            /\ ~r.area_code.null <=> n >= 10
            /\ ~r.area_code.null =>
                  r.area_code.s = <<r.phone_clean[1], r.phone_clean[2],
                                    r.phone_clean[3]>>

C9_Witness ==
    /\ row_out # <<>>
    /\ row_out[1].phone_digit_count = 10
    /\ Len(row_out[1].phone.s) > 10
    /\ ~row_out[1].area_code.null
    /\ row_out[1].is_international = 0

(* C10: when clean_and_engineer_features raises, called directly or by     *)
(* run(), self.df holds the records it held when the feature engine was    *)
(* entered, with no derived column, and category_mapping is unchanged.     *)
C10_RaiseLeavesObjectAlone ==
    [][/\ (last'.op = "clean_and_engineer_features" /\ last'.result # "ok") =>
              /\ df' = df
              /\ df'.columns \cap DerivedColumns = {}
              /\ category_mapping' = category_mapping
       /\ (/\ last'.op = "run"
           /\ Len(last'.invoked) = 2
           /\ Len(last'.completed) = 1) =>
              /\ df' = DataFrame(RawColumns, last'.source.rows)
              /\ category_mapping' = category_mapping]_vars

C10_Witness ==
    /\ CalledCleanAndEngineer
    /\ last.result = "AttributeError"
    /\ DerivedColumns \subseteq last.frame.columns
    /\ df.columns = RawColumns
    /\ le_category.fitted

====
